---------------------------- MODULE Spec2Model ----------------------------
(***************************************************************************)
(* A model of the agricultural weather forecast ingestor (L13/crawler.py)  *)
(* and of the dashboard that reads its database (L13/app.py).              *)
(*                                                                         *)
(*   SpecParse  parse_forecasts applied to bounded JSON payloads           *)
(*   SpecFetch  fetch_data: one HTTP attempt, then the fallback file       *)
(*   Spec       save_to_db runs of the ingestor process interleaved with   *)
(*              page runs of the viewer process on one SQLite file         *)
(***************************************************************************)
EXTENDS Integers, Sequences, FiniteSets, TLC

VARIABLES
    payload,     \* parse_forecasts: its argument
    parsed,      \* parse_forecasts: its outcome (returned list or raised error)
    net,         \* fetch_data: what the HTTP request and its response do
    fallback,    \* fetch_data: the fallback file F-A0010-001.json on disk
    fpc,         \* fetch_data: position in the function
    attempts,    \* fetch_data: number of requests.get calls made
    fetched,     \* fetch_data: its outcome (returned payload or raised error)
    fileExists,  \* storage: sqlitedata.db exists
    tableExists, \* storage: the forecasts table exists
    rows,        \* storage: committed rows of forecasts
    pc,          \* ingestor: position in save_to_db
    records,     \* ingestor: the argument of the current save_to_db call
    txn,         \* ingestor: the table as the connection's open transaction sees it
    inTxn,       \* ingestor: the connection has an open transaction
    timestamp,   \* ingestor: the batch's timestamp
    todo,        \* ingestor: parameter rows executemany has not yet run
    outcome,     \* ingestor: how the current save_to_db call ended
    runs,        \* ingestor: number of save_to_db calls started
    before,      \* ingestor: the storage as it was when the current call started
    vpc,         \* viewer: where the page run of main stands
    df,          \* viewer: the DataFrame load_data returned to this page run
    readAt       \* viewer: the value of runs when df was read from storage

parseVars == <<payload, parsed>>
fetchVars == <<net, fallback, fpc, attempts, fetched>>
storeVars == <<fileExists, tableExists, rows>>
saveVars == <<pc, records, txn, inTxn, timestamp, todo, outcome, runs, before>>
viewVars == <<vpc, df, readAt>>
vars == <<parseVars, fetchVars, storeVars, saveVars, viewVars>>

(***************************************************************************)
(* Bounds of the model.                                                    *)
(***************************************************************************)
MaxStrLen == 3     \* longest temperature string enumerated
MaxDaily == 2      \* longest daily list of the series under study
MaxOtherDaily == 1 \* longest daily list of the other series
MaxBatch == 2      \* most records in one save_to_db batch
MaxRuns == 2       \* most save_to_db calls in one behaviour
MaxClock == 1      \* latest second datetime.utcnow() reports

(***************************************************************************)
(* JSON values (json.load / response.json()).  A string is a sequence of   *)
(* one-character strings; a dict maps keys to values.                      *)
(***************************************************************************)
Null == [t |-> "null", s |-> <<>>, n |-> 0, items |-> <<>>, m |-> <<>>]
Str(cs) == [t |-> "str", s |-> cs, n |-> 0, items |-> <<>>, m |-> <<>>]
Num(i) == [t |-> "num", s |-> <<>>, n |-> i, items |-> <<>>, m |-> <<>>]
List(vs) == [t |-> "list", s |-> <<>>, n |-> 0, items |-> vs, m |-> <<>>]
Dict(f) == [t |-> "dict", s |-> <<>>, n |-> 0, items |-> <<>>, m |-> f]
EmptyDict == Dict(<<>>)
Dict1(k, v) == Dict(k :> v)

\* Outcome of an expression: a value, or a raised exception.
Ok(v) == [ok |-> TRUE, exc |-> "", val |-> v]
Raise(e) == [ok |-> FALSE, exc |-> e, val |-> <<>>]

\* Python floats: None, a finite decimal num / 10^scale, nan, +-inf.
NoneF == [k |-> "none", num |-> 0, scale |-> 0]
NaN == [k |-> "nan", num |-> 0, scale |-> 0]
Inf(sign) == [k |-> "inf", num |-> sign, scale |-> 0]
RECURSIVE Fin(_, _)
Fin(num, scale) ==
    IF scale > 0 /\ num % 10 = 0 THEN Fin(num \div 10, scale - 1)
    ELSE [k |-> "float", num |-> num, scale |-> scale]

Digits == {"0", "1", "2", "3", "4", "5", "6", "7", "8", "9"}
DigitVal(c) ==
    CASE c = "0" -> 0 [] c = "1" -> 1 [] c = "2" -> 2 [] c = "3" -> 3
      [] c = "4" -> 4 [] c = "5" -> 5 [] c = "6" -> 6 [] c = "7" -> 7
      [] c = "8" -> 8 [] c = "9" -> 9

\* Code point order of the characters used, for sorted() on strings.
CharRank(c) ==
    CASE c = "-" -> 45 [] c = "." -> 46 [] c \in Digits -> 48 + DigitVal(c)
      [] c = "a" -> 97 [] c = "f" -> 102 [] c = "i" -> 105 [] c = "n" -> 110
      [] OTHER -> 120

RECURSIVE StrLess(_, _)
StrLess(a, b) ==
    IF b = <<>> THEN FALSE
    ELSE IF a = <<>> THEN TRUE
    ELSE IF CharRank(Head(a)) # CharRank(Head(b))
         THEN CharRank(Head(a)) < CharRank(Head(b))
    ELSE StrLess(Tail(a), Tail(b))

(***************************************************************************)
(* float(str) of Python, on the characters of the model's alphabet: an     *)
(* optional sign, then nan, inf, infinity, or decimal digits with at most  *)
(* one point and at least one digit.  Anything else is a ValueError.       *)
(***************************************************************************)
RECURSIVE Mantissa(_, _)
Mantissa(cs, acc) ==
    IF cs = <<>> THEN acc
    ELSE IF Head(cs) = "." THEN Mantissa(Tail(cs), acc)
    ELSE Mantissa(Tail(cs), 10 * acc + DigitVal(Head(cs)))

RECURSIVE Scale(_)
Scale(cs) ==
    IF cs = <<>> THEN 0
    ELSE IF Head(cs) = "." THEN Len(cs) - 1
    ELSE Scale(Tail(cs))

IsDecimal(cs) ==
    /\ \A i \in 1..Len(cs) : cs[i] \in Digits \cup {"."}
    /\ \E i \in 1..Len(cs) : cs[i] \in Digits
    /\ Cardinality({i \in 1..Len(cs) : cs[i] = "."}) <= 1

float_str(cs) ==
    LET neg == cs # <<>> /\ Head(cs) = "-"
        body == IF neg THEN Tail(cs) ELSE cs
        sign == IF neg THEN -1 ELSE 1
    IN  IF body = <<"n", "a", "n">> THEN Ok(NaN)
        ELSE IF body \in {<<"i", "n", "f">>,
                          <<"i", "n", "f", "i", "n", "i", "t", "y">>}
             THEN Ok(Inf(sign))
        ELSE IF IsDecimal(body)
             THEN Ok(Fin(sign * Mantissa(body, 0), Scale(body)))
        ELSE Raise("ValueError")

\* float(value) for a JSON value.
float(value) ==
    CASE value.t = "str" -> float_str(value.s)
      [] value.t = "num" -> Ok(Fin(value.n, 0))
      [] OTHER -> Raise("TypeError")

\* parse_forecasts.to_float
to_float(value) ==
    IF value.t = "null" \/ (value.t = "str" /\ value.s = <<>>) THEN Ok(NoneF)
    ELSE LET r == float(value)
         IN  IF ~r.ok /\ r.exc = "ValueError" THEN Ok(NoneF) ELSE r

(***************************************************************************)
(* Python operations on JSON values.                                       *)
(***************************************************************************)
\* value[key] with a string key
Subscript(value, key) ==
    IF value.t = "dict"
    THEN IF key \in DOMAIN value.m THEN Ok(value.m[key]) ELSE Raise("KeyError")
    ELSE Raise("TypeError")

\* value.get(key, default): only a dict has .get
Get(value, key, default) ==
    IF value.t = "dict"
    THEN Ok(IF key \in DOMAIN value.m THEN value.m[key] ELSE default)
    ELSE Raise("AttributeError")

\* bool(value)
Truthy(value) ==
    CASE value.t = "null" -> FALSE
      [] value.t = "str" -> value.s # <<>>
      [] value.t = "num" -> value.n # 0
      [] value.t = "list" -> value.items # <<>>
      [] value.t = "dict" -> DOMAIN value.m # {}

\* for x in value: a list yields its items, a str its characters, a dict its
\* keys (strings; their text is never read, since every use is x.get(...)).
Iterate(value) ==
    CASE value.t = "list" -> Ok(value.items)
      [] value.t = "str" -> Ok([i \in 1..Len(value.s) |-> Str(<<value.s[i]>>)])
      [] value.t = "dict" ->
            Ok([i \in 1..Cardinality(DOMAIN value.m) |-> Str(<<"a">>)])
      [] OTHER -> Raise("TypeError")

Hashable(value) == value.t \in {"null", "str", "num"}

ValueLess(a, b) ==
    IF a.t = "str" THEN StrLess(a.s, b.s) ELSE a.n < b.n

RECURSIVE SortAsc(_)
SortAsc(S) ==
    IF S = {} THEN <<>>
    ELSE LET least == CHOOSE x \in S : \A y \in S \ {x} : ValueLess(x, y)
         IN  <<least>> \o SortAsc(S \ {least})

\* sorted(set of keys): values of one orderable type, or at most one value
sorted(S) ==
    IF Cardinality(S) <= 1 \/ \A x \in S : x.t = "str" THEN Ok(SortAsc(S))
    ELSE IF \A x \in S : x.t = "num" THEN Ok(SortAsc(S))
    ELSE Raise("TypeError")

(***************************************************************************)
(* parse_forecasts                                                         *)
(***************************************************************************)
PATH ==
    <<"cwaopendata", "resources", "resource", "data", "agrWeatherForecasts",
      "weatherForecasts", "location">>

\* payload["cwaopendata"]["resources"]...["location"], from the k-th key on
RECURSIVE Descend(_, _)
Descend(value, k) ==
    IF k > Len(PATH) THEN Ok(value)
    ELSE LET r == Subscript(value, PATH[k])
         IN  IF r.ok THEN Descend(r.val, k + 1) ELSE r

\* {entry.get("dataDate"): to_float(entry.get("temperature")) for entry in daily}
\* A later entry of the same date replaces the earlier one.
RECURSIVE daily_map(_, _)
daily_map(entries, acc) ==
    IF entries = <<>> THEN Ok(acc)
    ELSE LET entry == Head(entries)
             key == Get(entry, "dataDate", Null)
             temp == Get(entry, "temperature", Null)
             val == to_float(temp.val)
         IN  IF ~key.ok THEN key
             ELSE IF ~val.ok THEN val
             ELSE IF ~Hashable(key.val) THEN Raise("TypeError")
             ELSE daily_map(Tail(entries),
                            [x \in DOMAIN acc \cup {key.val} |->
                                IF x = key.val THEN val.val ELSE acc[x]])

\* dict.get(key) on max_map / min_map
map_get(map, key) == IF key \in DOMAIN map THEN map[key] ELSE NoneF

\* the records appended for the sorted dates (lines 44-47)
RECURSIVE date_records(_, _, _, _)
date_records(location_name, dates, max_map, min_map) ==
    IF dates = <<>> THEN <<>>
    ELSE LET data_date == Head(dates)
             rest == date_records(location_name, Tail(dates), max_map, min_map)
         IN  IF ~Truthy(data_date) THEN rest
             ELSE <<[location |-> location_name, data_date |-> data_date,
                     max_temp |-> map_get(max_map, data_date),
                     min_temp |-> map_get(min_map, data_date)]>> \o rest

\* One iteration of the loop over locations (lines 36-47): the records it
\* appends, or the exception it raises.
location_records(location) ==
    LET location_name == Get(location, "locationName", Null)
        weather_elements == Get(location, "weatherElements", EmptyDict)
        maxT == Get(weather_elements.val, "MaxT", EmptyDict)
        max_daily == IF maxT.ok THEN Get(maxT.val, "daily", List(<<>>)) ELSE maxT
        minT == Get(weather_elements.val, "MinT", EmptyDict)
        min_daily == IF minT.ok THEN Get(minT.val, "daily", List(<<>>)) ELSE minT
        max_iter == Iterate(max_daily.val)
        max_map == IF max_iter.ok THEN daily_map(max_iter.val, <<>>) ELSE max_iter
        min_iter == Iterate(min_daily.val)
        min_map == IF min_iter.ok THEN daily_map(min_iter.val, <<>>) ELSE min_iter
        dates == sorted(DOMAIN max_map.val \cup DOMAIN min_map.val)
    IN  IF ~location_name.ok THEN location_name
        ELSE IF ~Truthy(location_name.val) THEN Ok(<<>>)
        ELSE IF ~max_daily.ok THEN max_daily
        ELSE IF ~min_daily.ok THEN min_daily
        ELSE IF ~max_map.ok THEN max_map
        ELSE IF ~min_map.ok THEN min_map
        ELSE IF ~dates.ok THEN dates
        ELSE Ok(date_records(location_name.val, dates.val, max_map.val, min_map.val))

RECURSIVE locations_loop(_, _)
locations_loop(locations, acc) ==
    IF locations = <<>> THEN Ok(acc)
    ELSE LET r == location_records(Head(locations))
         IN  IF r.ok THEN locations_loop(Tail(locations), acc \o r.val) ELSE r

\* Faulty variant of parse_forecasts: the except clause names KeyError alone.
parse_forecasts_KeyErrorOnly(p) ==
    LET locations == Descend(p, 1)
        iter == Iterate(locations.val)
    IN  IF ~locations.ok
        THEN IF locations.exc = "KeyError" THEN Ok(<<>>) ELSE locations
        ELSE IF ~iter.ok THEN iter
        ELSE locations_loop(iter.val, <<>>)

parse_forecasts(p) ==
    LET locations == Descend(p, 1)
        iter == Iterate(locations.val)
    IN  IF ~locations.ok
        THEN IF locations.exc \in {"KeyError", "TypeError"} THEN Ok(<<>>)
             ELSE locations
        ELSE IF ~iter.ok THEN iter
        ELSE locations_loop(iter.val, <<>>)

(***************************************************************************)
(* The payloads parse_forecasts is applied to.                             *)
(***************************************************************************)
Alphabet == {"0", "1", ".", "-", "n", "a", "i", "f"}
SeqsUpTo(S, n) == UNION {[1..k -> S] : k \in 0..n}

\* the value v placed under the first k keys of PATH
RECURSIVE WrapFrom(_, _)
WrapFrom(v, k) == IF k = 0 THEN v ELSE WrapFrom(Dict1(PATH[k], v), k - 1)
WithLocations(v) == WrapFrom(v, Len(PATH))

Series(daily) == Dict1("daily", daily)
Elements(maxT, minT) == Dict(("MaxT" :> maxT) @@ ("MinT" :> minT))
Location(name, elements) ==
    Dict(("locationName" :> name) @@ ("weatherElements" :> elements))
GoodLoc(name, max_daily, min_daily) ==
    Location(Str(name), Elements(Series(List(max_daily)), Series(List(min_daily))))
Entry(date, temp) == Dict(("dataDate" :> date) @@ ("temperature" :> temp))
Undated(temp) == Dict1("temperature", temp)

\* values of a shape the parser does not expect at some place
BadValues ==
    {Null, Num(0), Num(1), Str(<<>>), Str(<<"a">>), List(<<>>), List(<<Null>>),
     EmptyDict, Dict1("x", Null)}

\* a key of the path missing, or a value along it that is no mapping
PathFaults == {WrapFrom(b, k) : b \in BadValues, k \in 0..(Len(PATH) - 1)}

GoodEntry == Entry(Str(<<"1">>), Str(<<"1">>))
ShapeFaults ==
    UNION {
      { WithLocations(b),
        WithLocations(List(<<b>>)),
        WithLocations(List(<<GoodLoc(<<"n">>, <<GoodEntry>>, <<>>), b>>)),
        WithLocations(List(<<Location(b, Elements(Series(List(<<GoodEntry>>)),
                                                  Series(List(<<>>))))>>)),
        WithLocations(List(<<Location(Str(<<"n">>), b)>>)),
        WithLocations(List(<<Location(Str(<<"n">>),
                                      Elements(b, Series(List(<<GoodEntry>>))))>>)),
        WithLocations(List(<<Location(Str(<<"n">>),
                                      Elements(Series(List(<<GoodEntry>>)), b))>>)),
        WithLocations(List(<<Location(Str(<<"n">>),
                                      Elements(Series(b), Series(List(<<>>))))>>)),
        WithLocations(List(<<Location(Str(<<"n">>),
                                      Elements(Series(List(<<>>)), Series(b)))>>)),
        WithLocations(List(<<GoodLoc(<<"n">>, <<GoodEntry, b>>, <<>>)>>)),
        WithLocations(List(<<GoodLoc(<<"n">>, <<Entry(b, Str(<<"1">>))>>, <<>>)>>)),
        WithLocations(List(<<GoodLoc(<<"n">>, <<GoodEntry>>,
                                     <<Entry(Str(<<"2">>), b)>>)>>)) }
      : b \in BadValues }

\* daily entries: the date missing, empty or one of two days; a numeric or a
\* non-numeric temperature
DailyEntries ==
    {Entry(Str(d), Str(t)) : d \in {<<>>, <<"1">>, <<"2">>}, t \in {<<"1">>, <<"a">>}}
        \cup {Undated(Str(t)) : t \in {<<"1">>, <<"a">>}}
\* one named location with the two daily lists
DailyPayload(max_daily, min_daily) ==
    WithLocations(List(<<GoodLoc(<<"n">>, max_daily, min_daily)>>))

\* one dated entry whose temperature is the string t
TempPayload(t) == DailyPayload(<<Entry(Str(<<"1">>), Str(t))>>, <<>>)

\* two location entries: names equal, different, empty, missing
SampleLocs ==
    { GoodLoc(<<"n">>, <<GoodEntry>>, <<Entry(Str(<<"2">>), Str(<<"0">>))>>),
      GoodLoc(<<"n">>, <<Entry(Str(<<"1">>), Str(<<"0">>))>>, <<>>),
      GoodLoc(<<"a">>, <<Entry(Str(<<"2">>), Str(<<"1">>))>>, <<GoodEntry>>),
      GoodLoc(<<>>, <<GoodEntry>>, <<GoodEntry>>),
      Dict1("weatherElements", Elements(Series(List(<<GoodEntry>>)),
                                        Series(List(<<GoodEntry>>)))),
      Dict1("locationName", Str(<<"a">>)) }
PairPayloads == {WithLocations(List(<<a, b>>)) : a, b \in SampleLocs}

SmallPayloads == PathFaults \cup ShapeFaults \cup PairPayloads

(***************************************************************************)
(* Idle values of the parts a specification does not exercise.             *)
(***************************************************************************)
NotRun == [ran |-> FALSE, ok |-> TRUE, exc |-> "", val |-> <<>>]
Ran(r) == [ran |-> TRUE, ok |-> r.ok, exc |-> r.exc, val |-> r.val]

IdleParse == payload = Null /\ parsed = NotRun
IdleFetch ==
    /\ net = [kind |-> "ok", body |-> Null]
    /\ fallback = [state |-> "absent", content |-> Null]
    /\ fpc = "done"
    /\ attempts = 0 /\ fetched = NotRun
NoStorage == [file |-> FALSE, table |-> FALSE, rows |-> {}]
IdleStore ==
    /\ fileExists = FALSE /\ tableExists = FALSE /\ rows = {}
IdleSave ==
    /\ pc = "idle" /\ records = <<>> /\ txn = {} /\ inTxn = FALSE
    /\ timestamp = 0 /\ todo = <<>> /\ outcome = "none" /\ runs = 0
    /\ before = NoStorage
IdleView ==
    /\ vpc = "idle" /\ df = {} /\ readAt = 0

(***************************************************************************)
(* SpecParse: parse_forecasts applied once to a payload.                   *)
(***************************************************************************)
InitParse ==
    /\ \/ payload \in SmallPayloads
       \/ \E t \in SeqsUpTo(Alphabet, MaxStrLen) : payload = TempPayload(t)
       \/ \E a \in SeqsUpTo(DailyEntries, MaxDaily),
             b \in SeqsUpTo(DailyEntries, MaxOtherDaily) :
             payload \in {DailyPayload(a, b), DailyPayload(b, a)}
    /\ parsed = NotRun
    /\ IdleFetch /\ IdleStore /\ IdleSave /\ IdleView

Parse ==
    /\ ~parsed.ran
    /\ parsed' = Ran(parse_forecasts(payload))
    /\ UNCHANGED <<payload, fetchVars, storeVars, saveVars, viewVars>>

NextParse == Parse
SpecParse == InitParse /\ [][NextParse]_vars

(***************************************************************************)
(* SpecFetch: fetch_data.                                                  *)
(*                                                                         *)
(* net.kind says what the one HTTP exchange does:                          *)
(*   ok               requests.get returns, the status is good, the body   *)
(*                    is JSON (net.body)                                   *)
(*   connection_error requests.get raises ConnectionError                  *)
(*   timeout          requests.get raises Timeout after the 30 s ceiling   *)
(*   http_error       raise_for_status raises HTTPError                    *)
(*   bad_body         response.json() raises requests' JSONDecodeError,    *)
(*                    a RequestException                                   *)
(*   bad_body_legacy  response.json() raises a plain ValueError (requests  *)
(*                    before 2.27), which the except clause does not catch *)
(* fallback.state is absent, valid (JSON: fallback.content) or corrupt     *)
(* (json.load raises JSONDecodeError).                                     *)
(***************************************************************************)
NetKinds ==
    {"ok", "connection_error", "timeout", "http_error", "bad_body", "bad_body_legacy"}
FallbackStates == {"absent", "valid", "corrupt"}
\* distinct JSON documents for the response and for the snapshot file
ResponseBodies ==
    {WithLocations(List(<<>>)),
     WithLocations(List(<<GoodLoc(<<"n">>, <<GoodEntry>>, <<>>)>>)),
     WithLocations(List(<<GoodLoc(<<"n">>, <<GoodEntry>>, <<GoodEntry>>)>>))}
SnapshotBodies ==
    {EmptyDict,
     WithLocations(List(<<GoodLoc(<<"a">>, <<>>, <<GoodEntry>>)>>)),
     WithLocations(List(<<GoodLoc(<<"a">>, <<GoodEntry>>, <<GoodEntry>>)>>))}

InitFetch ==
    /\ net \in [kind : {"ok"}, body : ResponseBodies]
                 \cup [kind : NetKinds \ {"ok"}, body : {Null}]
    /\ fallback \in [state : {"valid"}, content : SnapshotBodies]
                      \cup [state : {"absent", "corrupt"}, content : {Null}]
    /\ fpc = "try" /\ attempts = 0 /\ fetched = NotRun
    /\ IdleParse /\ IdleStore /\ IdleSave /\ IdleView

\* line 92: requests.get(url, params=params, timeout=30)
FetchGet ==
    /\ fpc = "try"
    /\ attempts' = attempts + 1
    /\ fpc' = IF net.kind \in {"connection_error", "timeout"} THEN "except"
              ELSE "status"
    /\ UNCHANGED <<net, fallback, fetched, parseVars, storeVars, saveVars, viewVars>>

\* line 93: response.raise_for_status()
FetchRaiseForStatus ==
    /\ fpc = "status"
    /\ fpc' = IF net.kind = "http_error" THEN "except" ELSE "json"
    /\ UNCHANGED <<net, fallback, attempts, fetched, parseVars, storeVars,
                   saveVars, viewVars>>

\* lines 94-95: print, return response.json()
FetchJson ==
    /\ fpc = "json"
    /\ \/ /\ net.kind = "ok"
          /\ fpc' = "done"
          /\ fetched' = Ran(Ok(net.body))
       \/ /\ net.kind = "bad_body"
          /\ fpc' = "except"
          /\ UNCHANGED fetched
       \/ /\ net.kind = "bad_body_legacy"
          /\ fpc' = "done"
          /\ fetched' = Ran(Raise("ValueError"))
    /\ UNCHANGED <<net, fallback, attempts, parseVars, storeVars, saveVars, viewVars>>

\* Faulty variant of FetchExcept: the request is tried once more before the fallback.
FetchExceptRetries ==
    /\ fpc = "except"
    /\ IF attempts < 2
       THEN fpc' = "try" /\ UNCHANGED fetched
       ELSE IF fallback.state = "absent"
       THEN fpc' = "done" /\ fetched' = Ran(Raise("FileNotFoundError"))
       ELSE fpc' = "open" /\ UNCHANGED fetched
    /\ UNCHANGED <<net, fallback, attempts, parseVars, storeVars, saveVars, viewVars>>

\* lines 96-99: except RequestException: print, check FALLBACK_JSON.exists()
FetchExcept ==
    /\ fpc = "except"
    /\ IF fallback.state = "absent"
       THEN fpc' = "done" /\ fetched' = Ran(Raise("FileNotFoundError"))
       ELSE fpc' = "open" /\ UNCHANGED fetched
    /\ UNCHANGED <<net, fallback, attempts, parseVars, storeVars, saveVars, viewVars>>

\* lines 100-101: open the fallback file, return json.load(f)
FetchLoadFallback ==
    /\ fpc = "open"
    /\ fpc' = "done"
    /\ fetched' = IF fallback.state = "valid" THEN Ran(Ok(fallback.content))
                  ELSE Ran(Raise("JSONDecodeError"))
    /\ UNCHANGED <<net, fallback, attempts, parseVars, storeVars, saveVars, viewVars>>

NextFetch ==
    \/ FetchGet
    \/ FetchRaiseForStatus
    \/ FetchJson
    \/ FetchExcept
    \/ FetchLoadFallback
SpecFetch == InitFetch /\ [][NextFetch]_vars

(***************************************************************************)
(* Spec: the ingestor's save_to_db and the viewer's main on one database.  *)
(*                                                                         *)
(* A record is a tuple parse_forecasts emits; a row adds fetched_at.  The  *)
(* id column (AUTOINCREMENT) is read by no statement and is left out.      *)
(***************************************************************************)
Reading(max_t, min_t) == [max_temp |-> max_t, min_temp |-> min_t]
Readings == {Reading(Fin(20, 0), Fin(10, 0)), Reading(Fin(25, 0), NoneF)}
Record(loc, date, r) ==
    [location |-> loc, data_date |-> date,
     max_temp |-> r.max_temp, min_temp |-> r.min_temp]
\* records of the first day with either reading, of the second day with
\* one, and a record whose location is None
RecordSet ==
    {Record(Str(<<"n">>), Str(<<"1">>), r) : r \in Readings}
        \cup {Record(Str(<<"n">>), Str(<<"2">>), Reading(Fin(20, 0), Fin(10, 0))),
              Record(Null, Str(<<"1">>), Reading(Fin(20, 0), Fin(10, 0)))}
Batches == SeqsUpTo(RecordSet, MaxBatch)
\* what datetime.utcnow() may report, truncated to seconds
Clock == 0..MaxClock

Key(r) == <<r.location, r.data_date>>
Row(r, ts) ==
    [location |-> r.location, data_date |-> r.data_date,
     max_temp |-> r.max_temp, min_temp |-> r.min_temp, fetched_at |-> ts]
Storage == [file |-> fileExists, table |-> tableExists, rows |-> rows]

\* NOT NULL on location and data_date (lines 62-63): None binds as NULL
NotNullOk(row) == row.location.t # "null" /\ row.data_date.t # "null"

\* Variants of InsertOrReplace: the table without its UNIQUE constraint, and
\* INSERT OR IGNORE, which keeps the row already stored.
InsertNoUnique(table, row) == table \cup {row}
InsertOrIgnore(table, row) ==
    IF \E x \in table : Key(x) = Key(row) THEN table ELSE table \cup {row}

\* INSERT OR REPLACE under UNIQUE(location, data_date) (lines 67, 74): the
\* rows in conflict are deleted, then the new row is inserted
InsertOrReplace(table, row) == {x \in table : Key(x) # Key(row)} \cup {row}

Init ==
    /\ IdleStore /\ IdleSave /\ IdleView /\ IdleParse /\ IdleFetch

\* Faulty variant of SaveCall: no early return for an empty batch.
SaveCallNoEmptyCheck ==
    /\ pc \in {"idle", "returned"}
    /\ runs < MaxRuns
    /\ \E batch \in Batches : records' = batch
    /\ pc' = "connect" /\ outcome' = "running"
    /\ runs' = runs + 1
    /\ before' = Storage
    /\ timestamp' = 0 /\ todo' = <<>>
    /\ UNCHANGED <<txn, inTxn, storeVars, parseVars, fetchVars, viewVars>>

\* lines 51-56: the call; an empty batch prints and returns at once
SaveCall ==
    /\ pc \in {"idle", "returned"}
    /\ runs < MaxRuns
    /\ \E batch \in Batches :
          /\ records' = batch
          /\ IF batch = <<>>
             THEN pc' = "returned" /\ outcome' = "skipped"
             ELSE pc' = "connect" /\ outcome' = "running"
    /\ runs' = runs + 1
    /\ before' = Storage
    /\ timestamp' = 0 /\ todo' = <<>>
    /\ UNCHANGED <<txn, inTxn, storeVars, parseVars, fetchVars, viewVars>>

\* line 56: sqlite3.connect creates the database file when it is missing
SaveConnect ==
    /\ pc = "connect"
    /\ fileExists' = TRUE
    /\ txn' = {} /\ inTxn' = FALSE
    /\ pc' = "create"
    /\ UNCHANGED <<tableExists, rows, records, timestamp, todo, outcome, runs,
                   before, parseVars, fetchVars, viewVars>>

\* lines 58-70: CREATE TABLE IF NOT EXISTS; the sqlite3 module opens no
\* transaction for DDL, so the statement commits by itself
SaveCreateTable ==
    /\ pc = "create"
    /\ tableExists' = TRUE
    /\ pc' = "stamp"
    /\ UNCHANGED <<fileExists, rows, records, txn, inTxn, timestamp, todo,
                   outcome, runs, before, parseVars, fetchVars, viewVars>>

\* lines 71 and 77: one reading of the clock, then the parameter rows of
\* the batch, all with that timestamp (executemany runs nothing for none)
SaveStamp ==
    /\ pc = "stamp"
    /\ \E now \in Clock :
          /\ timestamp' = now
          /\ todo' = [i \in 1..Len(records) |-> Row(records[i], now)]
    /\ pc' = IF records = <<>> THEN "commit" ELSE "insert"
    /\ UNCHANGED <<storeVars, records, txn, inTxn, outcome, runs, before,
                   parseVars, fetchVars, viewVars>>

\* lines 72-78: executemany runs the INSERT for the next parameter row.  The
\* first one begins the transaction (implicit BEGIN before DML).  A NULL in
\* a NOT NULL column raises IntegrityError and ends executemany.
SaveInsert ==
    /\ pc = "insert" /\ todo # <<>>
    /\ LET row == Head(todo)
           table == IF inTxn THEN txn ELSE rows
       IN  /\ inTxn' = TRUE
           /\ IF NotNullOk(row)
              THEN /\ txn' = InsertOrReplace(table, row)
                   /\ todo' = Tail(todo)
                   /\ pc' = IF Tail(todo) = <<>> THEN "commit" ELSE "insert"
                   /\ UNCHANGED outcome
              ELSE /\ txn' = table
                   /\ pc' = "close"
                   /\ outcome' = "IntegrityError"
                   /\ UNCHANGED todo
    /\ UNCHANGED <<storeVars, records, timestamp, runs, before, parseVars,
                   fetchVars, viewVars>>

\* lines 72-78: the statement fails for a reason outside the batch (the
\* database is locked, the disk is full): OperationalError
SaveInsertFails ==
    /\ pc = "insert" /\ todo # <<>>
    /\ pc' = "close"
    /\ outcome' = "OperationalError"
    /\ UNCHANGED <<storeVars, records, txn, inTxn, timestamp, todo, runs, before,
                   parseVars, fetchVars, viewVars>>

\* line 79: conn.commit() makes the transaction's table the committed one
SaveCommit ==
    /\ pc = "commit"
    /\ rows' = txn
    /\ inTxn' = FALSE
    /\ outcome' = "ok"
    /\ pc' = "close"
    /\ UNCHANGED <<fileExists, tableExists, records, txn, timestamp, todo, runs,
                   before, parseVars, fetchVars, viewVars>>

\* line 79: conn.commit() fails (a reader holds the lock past the busy
\* timeout): OperationalError, the transaction stays open
SaveCommitFails ==
    /\ pc = "commit"
    /\ outcome' = "OperationalError"
    /\ pc' = "close"
    /\ UNCHANGED <<storeVars, records, txn, inTxn, timestamp, todo, runs, before,
                   parseVars, fetchVars, viewVars>>

\* Faulty variant of SaveClose: closing commits what the transaction holds.
SaveCloseCommits ==
    /\ pc = "close"
    /\ rows' = IF inTxn THEN txn ELSE rows
    /\ txn' = {} /\ inTxn' = FALSE
    /\ todo' = <<>>
    /\ pc' = "returned"
    /\ UNCHANGED <<fileExists, tableExists, records, timestamp, outcome, runs,
                   before, parseVars, fetchVars, viewVars>>

\* lines 80-81: finally conn.close(); an open transaction is rolled back
SaveClose ==
    /\ pc = "close"
    /\ txn' = {} /\ inTxn' = FALSE
    /\ todo' = <<>>
    /\ pc' = "returned"
    /\ UNCHANGED <<storeVars, records, timestamp, outcome, runs, before,
                   parseVars, fetchVars, viewVars>>

\* app.py load_data (lines 16-39) when its body runs: an empty frame when
\* the file is missing, an error when the query fails (no such table), else
\* the committed rows.  st.cache_data hands a later page run of the same
\* server the frame of the run that loaded it; such a run reads nothing and
\* takes the same branch of main, so the runs modelled are those that load.
load_data ==
    IF ~fileExists THEN Ok({})
    ELSE IF ~tableExists THEN Raise("DatabaseError")
    ELSE Ok(rows)

\* app.py main (lines 111-137), one page run: load the data; warn and
\* return when the frame is empty (lines 117-119); else go on to
\* build_filters and the render steps (lines 121-137).
ViewerMain ==
    /\ vpc = "idle"
    /\ LET loaded == load_data
       IN  IF ~loaded.ok
           THEN vpc' = "crashed" /\ UNCHANGED <<df, readAt>>
           ELSE /\ df' = loaded.val
                /\ readAt' = runs
                /\ vpc' = IF loaded.val = {} THEN "warned" ELSE "filters"
    /\ UNCHANGED <<storeVars, saveVars, parseVars, fetchVars>>

\* the page run is over; the page is run again later
ViewerRerun ==
    /\ vpc # "idle"
    /\ vpc' = "idle"
    /\ df' = {}
    /\ readAt' = 0
    /\ UNCHANGED <<storeVars, saveVars, parseVars, fetchVars>>

Next ==
    \/ SaveCall
    \/ SaveConnect
    \/ SaveCreateTable
    \/ SaveStamp
    \/ SaveInsert
    \/ SaveInsertFails
    \/ SaveCommit
    \/ SaveCommitFails
    \/ SaveClose
    \/ ViewerMain
    \/ ViewerRerun
Spec == Init /\ [][Next]_vars

(***************************************************************************)
(* Properties of parse_forecasts (SpecParse).                              *)
(***************************************************************************)
\* what parse_forecasts emitted: nothing when it raised
Emitted == IF parsed.ok THEN parsed.val ELSE <<>>

\* the location entries of the payload, when the path leads to a list
LocationEntries ==
    LET locations == Descend(payload, 1)
    IN  IF locations.ok /\ locations.val.t = "list" THEN locations.val.items
        ELSE <<>>

HasKey(value, key) == value.t = "dict" /\ key \in DOMAIN value.m

\* the entries of a location's MaxT or MinT daily sequence
DailyOf(location, series) ==
    IF /\ HasKey(location, "weatherElements")
       /\ HasKey(location.m["weatherElements"], series)
       /\ HasKey(location.m["weatherElements"].m[series], "daily")
       /\ location.m["weatherElements"].m[series].m["daily"].t = "list"
    THEN location.m["weatherElements"].m[series].m["daily"].items
    ELSE <<>>

\* the entry carries a name that is neither missing nor empty
HasName(location) ==
    HasKey(location, "locationName") /\ Truthy(location.m["locationName"])

\* the entries of a daily sequence that carry the date d
Dated(daily, d) ==
    {i \in DOMAIN daily : HasKey(daily[i], "dataDate") /\ daily[i].m["dataDate"] = d}
DatesOf(daily) ==
    {daily[i].m["dataDate"] :
        i \in {j \in DOMAIN daily :
                 HasKey(daily[j], "dataDate") /\ Truthy(daily[j].m["dataDate"])}}
UnionDates(location) ==
    DatesOf(DailyOf(location, "MaxT")) \cup DatesOf(DailyOf(location, "MinT"))

\* the series' value for the date d: null when the date is absent, else the
\* temperature of its entry for d (the last one, if the date repeats)
ValueFor(daily, d) ==
    IF Dated(daily, d) = {} THEN NoneF
    ELSE LET last == CHOOSE i \in Dated(daily, d) : \A j \in Dated(daily, d) : j <= i
             temp == IF HasKey(daily[last], "temperature")
                     THEN daily[last].m["temperature"] ELSE Null
         IN  IF to_float(temp).ok THEN to_float(temp).val ELSE NoneF

ExpectedRecord(location, d) ==
    [location |-> location.m["locationName"], data_date |-> d,
     max_temp |-> ValueFor(DailyOf(location, "MaxT"), d),
     min_temp |-> ValueFor(DailyOf(location, "MinT"), d)]

RECURSIVE ExpectedCount(_)
ExpectedCount(locations) ==
    IF locations = <<>> THEN 0
    ELSE (IF HasName(Head(locations)) THEN Cardinality(UnionDates(Head(locations)))
          ELSE 0) + ExpectedCount(Tail(locations))

OneRecordPerDate ==
    /\ Len(Emitted) = ExpectedCount(LocationEntries)
    /\ \A i \in DOMAIN LocationEntries :
          HasName(LocationEntries[i]) =>
             \A d \in UnionDates(LocationEntries[i]) :
                \E k \in DOMAIN Emitted :
                   Emitted[k] = ExpectedRecord(LocationEntries[i], d)

\* C3: for every location entry with a non-empty name, parse_forecasts emits
\* exactly one record per distinct date of the union of the dates of its MaxT
\* and MinT daily sequences, with the MaxT value (null when the date is not
\* in MaxT) and the MinT value (null when the date is not in MinT).
C3_OneRecordPerUnionDate == parsed.ran => OneRecordPerDate

\* The same statement for the payloads on which parse_forecasts returns.
OneRecordPerDateWhenReturned == (parsed.ran /\ parsed.ok) => OneRecordPerDate

\* C4: parse_forecasts never raises an error, whatever the shape of the
\* payload; a malformed structure yields a result, not an error.
C4_NeverRaises == parsed.ran => parsed.ok

\* a key of PATH, from the k-th on, is missing, or a value on the way is no
\* mapping
RECURSIVE PathBroken(_, _)
PathBroken(value, k) ==
    /\ k <= Len(PATH)
    /\ \/ value.t # "dict"
       \/ PATH[k] \notin DOMAIN value.m
       \/ PathBroken(value.m[PATH[k]], k + 1)

\* C5: when a key of the path cwaopendata ... location is missing from the
\* payload, or a value along the path is not a mapping, parse_forecasts
\* returns the empty record list and raises no error.
C5_BrokenPathYieldsEmpty ==
    (parsed.ran /\ PathBroken(payload, 1)) => (parsed.ok /\ Len(parsed.val) = 0)

\* C5 witness: parse_forecasts has run on a payload whose value under
\* cwaopendata / resources is null, where subscripting raises TypeError
C5_Witness ==
    /\ parsed.ran /\ parsed.ok /\ Len(parsed.val) = 0
    /\ PathBroken(payload, 1)
    /\ HasKey(payload, "cwaopendata")
    /\ HasKey(payload.m["cwaopendata"], "resources")
    /\ payload.m["cwaopendata"].m["resources"].t = "null"

\* a numeric string: an optional minus sign, then decimal digits with at most
\* one point
IsNumeral(cs) == IsDecimal(IF cs # <<>> /\ Head(cs) = "-" THEN Tail(cs) ELSE cs)
NumeralValue(cs) ==
    IF Head(cs) = "-" THEN Fin(-Mantissa(Tail(cs), 0), Scale(Tail(cs)))
    ELSE Fin(Mantissa(cs, 0), Scale(cs))

\* C9: for every temperature string that is not numeric, the empty string
\* included, the emitted record holds null for it, never zero and never an
\* error; a numeric string is stored as its float value.
C9_NonNumericIsNull ==
    parsed.ran =>
        \A t \in SeqsUpTo(Alphabet, MaxStrLen) :
            payload = TempPayload(t) =>
                /\ parsed.ok
                /\ Len(parsed.val) = 1
                /\ parsed.val[1].max_temp =
                       IF IsNumeral(t) THEN NumeralValue(t) ELSE NoneF

(***************************************************************************)
(* Properties of fetch_data (SpecFetch).                                   *)
(***************************************************************************)
\* the exchanges that end in a RequestException
RequestFailures == {"connection_error", "timeout", "http_error", "bad_body"}

\* C7: fetch_data makes exactly one network attempt and never retries; when
\* the attempt succeeds it returns the response payload; on a request
\* failure it returns the content of the fallback file; when the attempt
\* fails and the fallback file is absent it ends with an error and returns
\* no payload.
C7_OneAttemptThenFallback ==
    /\ attempts <= 1
    /\ fpc = "done" =>
          /\ attempts = 1
          /\ fetched.ran
          /\ net.kind = "ok" => (fetched.ok /\ fetched.val = net.body)
          /\ (net.kind \in RequestFailures /\ fallback.state = "valid") =>
                (fetched.ok /\ fetched.val = fallback.content)
          /\ (net.kind \in RequestFailures /\ fallback.state = "absent") =>
                (~fetched.ok /\ fetched.exc = "FileNotFoundError")

\* C7 witness: the request timed out and fetch_data returned the snapshot
C7_Witness ==
    /\ fpc = "done" /\ attempts = 1
    /\ net.kind = "timeout" /\ fallback.state = "valid"
    /\ fetched.ok /\ fetched.val = fallback.content
    /\ fallback.content # EmptyDict

(***************************************************************************)
(* Properties of save_to_db and of the viewer (Spec).                      *)
(***************************************************************************)
Keys(table) == {Key(x) : x \in table}
BatchKeys(batch) == {Key(batch[i]) : i \in DOMAIN batch}
\* the last record of the batch with key k
LastWith(batch, k) ==
    batch[CHOOSE i \in DOMAIN batch :
             Key(batch[i]) = k /\ \A j \in DOMAIN batch : Key(batch[j]) = k => j <= i]
\* the table with every record of the batch stored over old, stamped ts
AllStored(old, batch, ts) ==
    {x \in old : Key(x) \notin BatchKeys(batch)}
        \cup {Row(LastWith(batch, k), ts) : k \in BatchKeys(batch)}

OneRowPerKey(table) == \A x, y \in table : Key(x) = Key(y) => x = y

\* C1: in every state reachable by save_to_db runs with arbitrary batches,
\* batches that repeat a key included, the forecasts table holds at most one
\* row per (location, data_date) pair.
C1_OneRowPerKey == OneRowPerKey(rows) /\ OneRowPerKey(txn)

\* C1 witness: a batch that names one key twice was stored over a table that
\* already held a row for that key
C1_Witness ==
    /\ pc = "returned" /\ outcome = "ok"
    /\ Len(records) = 2 /\ Key(records[1]) = Key(records[2])
    /\ records[1] # records[2]
    /\ Key(records[1]) \in Keys(before.rows)
    /\ Cardinality(rows) = 2

\* C2: when a run stores a record for a key an earlier run already stored,
\* the single row of that key afterwards carries the later run's max_temp
\* and min_temp and the later run's timestamp, and nothing of the earlier row.
C2_LaterRunOverwrites ==
    (pc = "returned" /\ outcome = "ok") =>
        \A k \in BatchKeys(records) \cap Keys(before.rows) :
            {x \in rows : Key(x) = k} = {Row(LastWith(records, k), timestamp)}

\* C2 witness: the later run replaced a row of other temperatures and of
\* another timestamp
C2_Witness ==
    /\ pc = "returned" /\ outcome = "ok"
    /\ \E old \in before.rows :
          /\ Key(old) \in BatchKeys(records)
          /\ old.max_temp # LastWith(records, Key(old)).max_temp
          /\ old.min_temp # LastWith(records, Key(old)).min_temp
          /\ old.fetched_at # timestamp
          /\ old \notin rows

\* the committed tables a batch may leave: the one before it, or, once the
\* batch has its timestamp, the one with all of it stored
BatchStates ==
    {before.rows} \cup
        (IF pc \in {"insert", "commit", "close", "returned"}
         THEN {AllStored(before.rows, records, timestamp)} ELSE {})

\* C6: a batch is atomic: after the run ends, normally or by an error raised
\* while inserting, every record of the batch is stored or none is, and a
\* viewer read interleaved with the run sees the batch's rows all or not at
\* all.
C6_BatchAtomic ==
    (pc \notin {"idle"} /\ records # <<>>) =>
        /\ rows \in BatchStates
        /\ pc = "returned" =>
              rows = IF outcome = "ok"
                     THEN AllStored(before.rows, records, timestamp)
                     ELSE before.rows
        /\ (readAt = runs /\ vpc \in {"warned", "filters"}) => df \in BatchStates

\* C6 witness: an insert raised after another row of the batch went into the
\* transaction; the viewer read during the run and saw none of the batch
C6_Witness ==
    /\ pc = "close" /\ outcome = "IntegrityError"
    /\ inTxn /\ txn # rows
    /\ readAt = runs /\ vpc = "filters" /\ df = rows

\* C8: save_to_db with an empty record set writes nothing and raises nothing:
\* the file, the table and every stored row are as they were before the call.
C8_EmptyBatchWritesNothing ==
    (pc = "returned" /\ records = <<>>) =>
        (Storage = before /\ outcome = "skipped")

\* C8 witness: the first call got an empty batch and no file was created
C8_Witness ==
    /\ pc = "returned" /\ records = <<>> /\ runs = 1
    /\ ~fileExists /\ ~tableExists /\ rows = {}

\* the storage states the claim names: the file missing, the file without
\* the table, the table without rows
EmptyStorage == ~fileExists \/ ~tableExists \/ rows = {}

\* C10: in every storage state the ingestor can leave behind (file missing,
\* file without the forecasts table, table with no rows) a page run shows the
\* warning and returns without a crash, and build_filters and the render
\* steps are reached only when the loaded data has at least one row.
C10_ViewerWarnsOnEmptyStorage ==
    /\ [][(vpc = "idle" /\ vpc' # "idle" /\ EmptyStorage) => vpc' = "warned"]_vars
    /\ [](vpc = "filters" => df # {})

=============================================================================
